---- MODULE Spec2Model ----
(***************************************************************************)
(* The audio-delivery pipeline of app.py: the chat handler and its         *)
(* synthesis worker, the greeting and on-demand audio paths, the free and  *)
(* paid text-to-speech providers and the lru_cache in front of the paid    *)
(* provider, the transcription handler with its temporary recording file,  *)
(* and the start of the process.                                           *)
(*                                                                         *)
(* Texts are numbered.  Texts 1..CAPACITY are "warm" texts, the ones that  *)
(* fill the cache in the warm initial states; the texts above CAPACITY are *)
(* fresh.  Audio is a record: None is Python's None, Bytes(d) a bytes      *)
(* object with content d (d = << >> is b'').                               *)
(***************************************************************************)
EXTENDS Integers, Sequences, FiniteSets, TLC

\* ---------------------------------------------------------------- bounds
NumReqs == 2          \* request slots (threads of the web transport)
NumFresh == 1         \* texts that are not in the warm cache
MaxMsgLen == 600      \* longest user message tried
TickSeconds == 11     \* seconds one Tick lets pass
MaxWait == 11         \* the clock of a waiting handler stops here

\* ------------------------------------------------------ program constants
CAPACITY == 128       \* @lru_cache(maxsize=128)
DEADLINE == 10        \* future.result(timeout=10)
MAXLEN == 500         \* len(user_message) > 500

Reqs == 1..NumReqs
WarmTexts == 1..CAPACITY
FreshTexts == (CAPACITY + 1)..(CAPACITY + NumFresh)
Texts == WarmTexts \cup FreshTexts
IntroText == 1        \* the introduction built from the profile
ReqTexts == {IntroText} \cup FreshTexts   \* replies and on-demand texts tried

\* ------------------------------------------------------------ audio data
None == [kind |-> "none", data |-> << >>]
Bytes(d) == [kind |-> "bytes", data |-> d]
B64(v) == [kind |-> "b64", data |-> v.data]
\* Python truth value of an audio result: None and b'' are false.
Truthy(v) == v.kind = "bytes" /\ Len(v.data) > 0

FreeData(t) == <<"free", t>>
PaidData(t) == <<"paid", t>>

\* ------------------------------------------------------------- messages
Alphabet == <<"a", "b", "c", "d", "e", "f", "g">>
Msg(n) == [i \in 1..n |-> Alphabet[(i % 7) + 1]]
Marker == <<".", ".", ".">>
MsgLens == {0, MAXLEN, MAXLEN + 1, MaxMsgLen}
BodyKinds == {"nojson", "nomessage", "message"}
\* faulty variant: the marker is not added
TruncateNoMarker(m) == IF Len(m) > MAXLEN THEN SubSeq(m, 1, MAXLEN) ELSE m
\* user_message[:500] + "..." when len(user_message) > 500
Truncate(m) == IF Len(m) > MAXLEN THEN SubSeq(m, 1, MAXLEN) \o Marker ELSE m

\* ------------------------------------------------------------ the cache
\* functools.lru_cache as a sequence of entries, least recently used first.
Entry(t, v) == [key |-> t, val |-> v]
Keys(c) == {c[i].key : i \in 1..Len(c)}
KeySeq(c) == [i \in 1..Len(c) |-> c[i].key]
IndexOf(c, t) == CHOOSE i \in 1..Len(c) : c[i].key = t
Without(c, i) == SubSeq(c, 1, i - 1) \o SubSeq(c, i + 1, Len(c))
\* a hit moves the entry to the most recently used end
MoveToEnd(c, t) == Append(Without(c, IndexOf(c, t)), c[IndexOf(c, t)])
\* faulty variant: the wrapper never finds a key
CacheLookupMiss(c, t) == [hit |-> FALSE, val |-> None, cache |-> c]
\* faulty variant: a hit returns the stored result and leaves the order alone
CacheLookupNoRefresh(c, t) ==
    IF t \in Keys(c)
    THEN [hit |-> TRUE, val |-> c[IndexOf(c, t)].val, cache |-> c]
    ELSE [hit |-> FALSE, val |-> None, cache |-> c]
\* the wrapper's lookup: a hit returns the stored result and refreshes it
CacheLookup(c, t) ==
    IF t \in Keys(c)
    THEN [hit |-> TRUE, val |-> c[IndexOf(c, t)].val, cache |-> MoveToEnd(c, t)]
    ELSE [hit |-> FALSE, val |-> None, cache |-> c]
\* faulty variant: the key is not looked up again after the wrapped call
CacheStoreDuplicate(c, t, v) ==
    IF Len(c) < CAPACITY THEN Append(c, Entry(t, v)) ELSE Append(Tail(c), Entry(t, v))
\* faulty variant: the result of the wrapped call is not kept
CacheStoreNothing(c, t, v) == c
\* faulty variant: a full cache keeps every entry
CacheStoreNoEvict(c, t, v) == IF t \in Keys(c) THEN c ELSE Append(c, Entry(t, v))
\* the wrapper after the wrapped call returned v: a key that another thread
\* added meanwhile is left alone; a full cache drops its oldest entry
CacheStore(c, t, v) ==
    IF t \in Keys(c) THEN c
    ELSE IF Len(c) < CAPACITY THEN Append(c, Entry(t, v))
    ELSE Append(Tail(c), Entry(t, v))

\* the cache after successful on-demand calls for the texts 1..n, in order
Warm(i) == Entry(i, Bytes(PaidData(i)))
WarmCache(n) == [i \in 1..n |-> Warm(i)]
WarmLevels == {0, CAPACITY}

\* ------------------------------------------------------------ providers
FreeOutcomes == {"ok", "empty", "status", "raise"}
PaidOutcomes == {"ok", "empty", "raise"}
\* client = ElevenLabs(api_key=ELEVEN_LABS_API_KEY): with the placeholder key
\* every client.generate call is refused
PaidOutcomesWith(key) == IF key THEN PaidOutcomes ELSE {"raise"}
\* the module-level chat.send_message: with the placeholder key it is refused
StartOutcomesWith(key) == IF key THEN {"ok", "raise"} ELSE {"raise"}
\* transcriber.transcribe: a transcript with text, one without, an exception
TranscribeOutcomes == {"ok", "notext", "raise"}
\* generate_free_tts: the content on status 200, None on any other status
\* and on any exception
generate_free_tts(t, o) ==
    CASE o = "ok" -> Bytes(FreeData(t))
      [] o = "empty" -> Bytes(<< >>)
      [] o = "status" -> None
      [] o = "raise" -> None
\* client.generate with the chunks joined; "raise" is handled by the caller
client_generate(t, o) == IF o = "ok" THEN Bytes(PaidData(t)) ELSE Bytes(<< >>)
\* an exception leaving a call, as a value
Raised == [kind |-> "raise", data |-> << >>]
\* cached_text_to_speech's wrapped body: the provider's bytes, or its exception
cached_body(t, o) == IF o = "raise" THEN Raised ELSE client_generate(t, o)

\* -------------------------------------------------------------- state
VARIABLES
    cache,        \* the lru_cache of cached_text_to_speech
    user_data,    \* TRUE when the profile has every field the introduction reads
    req,          \* per request slot: the handler, its synthesis and its response
    useOrder,     \* history: the cached keys, each with the bytes it was stored
                  \* with, least recently stored-or-hit first
    everCached,   \* history: the texts of ReqTexts that have been stored in the cache
    phase,        \* "boot" while the module is loading, then "serving" or "crashed"
    GEMINI_API_KEY,       \* TRUE when the environment gives a key, FALSE when
    ELEVEN_LABS_API_KEY,  \* the variable holds its placeholder
    ASSEMBLY_AI_API_KEY,
    temp_file     \* temp_recording.wav: 0 when absent, else the recording it holds

vars == <<cache, user_data, req, useOrder, everCached, phase, GEMINI_API_KEY,
          ELEVEN_LABS_API_KEY, ASSEMBLY_AI_API_KEY, temp_file>>
\* what the text-to-speech handlers leave alone
env == <<phase, GEMINI_API_KEY, ELEVEN_LABS_API_KEY, ASSEMBLY_AI_API_KEY, temp_file>>
credentials == <<GEMINI_API_KEY, ELEVEN_LABS_API_KEY, ASSEMBLY_AI_API_KEY>>

\* A slot: kind of request; hpc, where the handler is; spc, where the thread
\* running the synthesis is (for a chat request the worker); msg and fwd, the
\* message received and the one given to the model (kept until the model's
\* reply has arrived); text, the text to speak; fret, what generate_free_tts
\* returned in this request;
\* pout, how the cached paid path went in this request; ret, what
\* generate_audio returned; waited, seconds the chat handler has been blocked;
\* upload, the recording a transcription request carries (0 for none); heard,
\* the recording the speech-recognition backend was given (0 for none); tout,
\* how transcriber.transcribe went; body, the JSON object of a transcription
\* response, with exactly the keys it has.
NoResp == [status |-> "", text |-> << >>, audio |-> None, code |-> 0]
Idle == [kind |-> "none", hpc |-> "idle", spc |-> "none", msg |-> << >>, fwd |-> << >>,
         text |-> 0, fret |-> None, pout |-> "none", ret |-> None, waited |-> 0,
         resp |-> NoResp,
         upload |-> 0, heard |-> 0, tout |-> "none", body |-> << >>]

ApologyText ==
    <<"I'm sorry, I encountered an error processing your request. This might be due to API quota limitations. Please try again with a shorter message.">>
FallbackIntro ==
    <<"Hi! I'm Boobalamurgan AI assistant. I'm here to chat about tech, AI, and software development.">>
Reply(t) == <<"reply", t>>
Intro == <<"intro", IntroText>>

\* the handler returns (jsonify, render_template, Response); its locals die
Responded(q, status, txt, audio, code) ==
    [q EXCEPT !.hpc = "responded", !.spc = "none", !.msg = << >>,
              !.ret = None, !.waited = 0,
              !.resp = [status |-> status, text |-> txt, audio |-> audio, code |-> code]]

\* The process starts with an empty cache; the warm starts are the cache after
\* CAPACITY successful on-demand calls.  An incomplete profile is tried from
\* the empty cache only, and so is a start with a credential missing.
Init ==
    /\ \E n \in WarmLevels : cache = WarmCache(n)
    /\ user_data \in BOOLEAN
    /\ user_data \/ cache = << >>
    /\ req = [r \in Reqs |-> Idle]
    /\ useOrder = cache
    /\ everCached = Keys(cache) \cap ReqTexts
    /\ phase = "boot"
    /\ GEMINI_API_KEY \in BOOLEAN
    /\ ELEVEN_LABS_API_KEY \in BOOLEAN
    /\ ASSEMBLY_AI_API_KEY \in BOOLEAN
    /\ (GEMINI_API_KEY /\ ELEVEN_LABS_API_KEY /\ ASSEMBLY_AI_API_KEY)
          \/ (user_data /\ cache = << >>)
    /\ temp_file = 0

\* ----------------------------------------------------- synthesis steps
\* faulty variant: the cached path's outcome is passed on as it is
PaidReturnUnchecked(v) == v
\* faulty variant: the paid path's bytes are dropped
PaidReturnNothing(v) == None
\* what the fallback code after cached_text_to_speech(text) returns, v being
\* the cached path's bytes or its exception: "if audio_data: return
\* audio_data", the except clause, "return None"
PaidReturn(v) == IF v.kind = "bytes" /\ Truthy(v) THEN v ELSE None

\* faulty variant: the free provider's bytes are stored too
FreePathCacheStores(c, t, a) == CacheStore(c, t, a)
\* the cache after the free provider gave the non-empty bytes a for t: the
\* bytes are returned, nothing is stored
FreePathCache(c, t, a) == c

\* the request after the free provider gave the non-empty bytes a
FreeEnd(q, a) ==
    IF q.kind = "chat" THEN [q EXCEPT !.spc = "done", !.ret = a]
    ELSE Responded(q, "page", Intro, B64(a), 200)

\* the request after the cached paid path gave v (bytes or its exception)
PaidEnd(q, v) ==
    CASE q.kind = "chat" -> [q EXCEPT !.spc = "done", !.ret = PaidReturn(v)]
      [] q.kind = "greet" ->
            Responded(q, "page", Intro,
                      IF Truthy(PaidReturn(v)) THEN B64(PaidReturn(v)) ELSE None, 200)
      [] q.kind = "audio" ->
            IF v.kind = "raise"
            THEN Responded(q, "error", <<"Failed to generate audio">>, None, 500)
            ELSE Responded(q, "audio", << >>, v, 200)

\* history of a hit of t, and of a store of t with v that left the keys ks cached
Touch(order, t) ==
    Append(SelectSeq(order, LAMBDA e : e.key # t), order[IndexOf(order, t)])
Stored(order, t, v, ks) ==
    Append(SelectSeq(order, LAMBDA e : e.key \in ks /\ e.key # t), Entry(t, v))

\* request r, in state q, calls cached_text_to_speech(q.text): a hit ends the
\* paid path at once, a miss starts the provider call
EnterCached(r, q) ==
    LET l == CacheLookup(cache, q.text) IN
    /\ cache' = l.cache
    /\ useOrder' = IF l.hit THEN Touch(useOrder, q.text) ELSE useOrder
    /\ req' = [req EXCEPT ![r] = IF l.hit THEN PaidEnd([q EXCEPT !.pout = "hit"], l.val)
                                          ELSE [q EXCEPT !.spc = "call", !.pout = "miss"]]
    /\ UNCHANGED everCached

\* ---------------------------------------------------------- handlers
\* faulty variant: the exception leaves the handler
ApiErrorEscapes(q) == Responded(q, "fault", << >>, None, 0)
\* the except clause of chat_endpoint: the apology with status api_error
ApiError(q) == Responded(q, "api_error", ApologyText, None, 200)

\* chat_endpoint up to its call of chat.send_message
ChatReceive(r, body, n) ==
    /\ phase = "serving"
    /\ req[r].hpc = "idle"
    /\ req' = [req EXCEPT ![r] =
          CASE body = "nojson" ->
                 \* request.json.get fails before the try: the framework answers
                 Responded([Idle EXCEPT !.kind = "chat"], "fault", << >>, None, 0)
            [] body = "nomessage" ->
                 \* len(None) raises inside the try
                 ApiError([Idle EXCEPT !.kind = "chat"])
            [] body = "message" ->
                 [Idle EXCEPT !.kind = "chat", !.hpc = "send", !.msg = Msg(n),
                              !.fwd = Truncate(Msg(n))]]
    /\ UNCHANGED <<cache, user_data, useOrder, everCached, env>>

\* chat.send_message returns the reply t or raises; a reply is handed to a
\* worker running generate_audio
ChatSend(r, o, t) ==
    /\ req[r].hpc = "send"
    /\ req' = [req EXCEPT ![r] =
          IF o = "raise"
          THEN ApiError(req[r])
          ELSE [req[r] EXCEPT !.hpc = "join", !.spc = "free", !.msg = << >>,
                              !.fwd = << >>, !.text = t]]
    /\ UNCHANGED <<cache, user_data, useOrder, everCached, env>>

\* faulty variant: the exception of an incomplete profile leaves the function
GreetReceiveNoFallback(r) ==
    /\ phase = "serving"
    /\ req[r].hpc = "idle"
    /\ req' = [req EXCEPT ![r] =
                IF user_data
                THEN [Idle EXCEPT !.kind = "greet", !.hpc = "synth",
                                  !.spc = "free", !.text = IntroText]
                ELSE Responded([Idle EXCEPT !.kind = "greet"], "fault", << >>, None, 0)]
    /\ UNCHANGED <<cache, user_data, useOrder, everCached, env>>
\* generate_introduction up to its call of generate_free_tts
GreetReceive(r) ==
    /\ phase = "serving"
    /\ req[r].hpc = "idle"
    /\ req' = [req EXCEPT ![r] =
                IF user_data
                THEN [Idle EXCEPT !.kind = "greet", !.hpc = "synth",
                                  !.spc = "free", !.text = IntroText]
                ELSE Responded([Idle EXCEPT !.kind = "greet"], "page",
                               FallbackIntro, None, 200)]
    /\ UNCHANGED <<cache, user_data, useOrder, everCached, env>>

\* faulty variant: the on-demand path asks the free provider first
AudioReceiveFreeFirst(r, t) ==
    /\ phase = "serving"
    /\ req[r].hpc = "idle"
    /\ req' = [req EXCEPT ![r] = [Idle EXCEPT !.kind = "audio", !.hpc = "synth",
                                              !.spc = "free", !.text = t]]
    /\ UNCHANGED <<cache, user_data, useOrder, everCached, env>>
\* text_to_speech(text): straight into cached_text_to_speech
AudioReceive(r, t) ==
    /\ phase = "serving"
    /\ req[r].hpc = "idle"
    /\ EnterCached(r, [Idle EXCEPT !.kind = "audio", !.hpc = "synth", !.text = t])
    /\ UNCHANGED <<user_data, env>>

\* faulty variant: the cached path is entered whatever the free provider gave
SynthFreeThenPaid(r, o) ==
    LET a == generate_free_tts(req[r].text, o)
        q == [req[r] EXCEPT !.fret = a] IN
    /\ q.spc = "free"
    /\ EnterCached(r, q)
    /\ UNCHANGED <<user_data, env>>
\* generate_free_tts returns; without non-empty bytes the cached path is entered
SynthFree(r, o) ==
    LET a == generate_free_tts(req[r].text, o)
        q == [req[r] EXCEPT !.fret = a] IN
    /\ q.spc = "free"
    /\ IF Truthy(a)
       THEN /\ req' = [req EXCEPT ![r] = FreeEnd(q, a)]
            /\ cache' = FreePathCache(cache, q.text, a)
            /\ UNCHANGED <<useOrder, everCached>>
       ELSE EnterCached(r, q)
    /\ UNCHANGED <<user_data, env>>

\* faulty variant: the outcome is stored also when it is an exception
SynthPaidCachesFailure(r, o) ==
    LET q == req[r]
        v == cached_body(q.text, o)
        stored == q.text \notin Keys(cache) IN
    /\ q.spc = "call"
    /\ cache' = CacheStore(cache, q.text, v)
    /\ useOrder' = IF stored THEN Stored(useOrder, q.text, v, Keys(cache')) ELSE useOrder
    /\ everCached' = IF stored THEN everCached \cup {q.text} ELSE everCached
    /\ req' = [req EXCEPT ![r] = PaidEnd([q EXCEPT !.pout = o], v)]
    /\ UNCHANGED <<user_data, env>>
\* client.generate returns or raises; a returned result is stored
SynthPaid(r, o) ==
    LET q == req[r]
        v == cached_body(q.text, o)
        stored == v.kind # "raise" /\ q.text \notin Keys(cache) IN
    /\ q.spc = "call"
    /\ cache' = IF v.kind = "raise" THEN cache ELSE CacheStore(cache, q.text, v)
    /\ useOrder' = IF stored THEN Stored(useOrder, q.text, v, Keys(cache')) ELSE useOrder
    /\ everCached' = IF stored THEN everCached \cup {q.text} ELSE everCached
    /\ req' = [req EXCEPT ![r] = PaidEnd([q EXCEPT !.pout = o], v)]
    /\ UNCHANGED <<user_data, env>>

\* time passes while the chat handler is blocked and its worker is in a call
Tick(r) ==
    /\ req[r].kind = "chat"
    /\ req[r].hpc = "join"
    /\ req[r].spc \in {"free", "call"}
    /\ req[r].waited + TickSeconds <= MaxWait
    /\ req' = [req EXCEPT ![r].waited = @ + TickSeconds]
    /\ UNCHANGED <<cache, user_data, useOrder, everCached, env>>

\* leaving "with ThreadPoolExecutor() as executor": shutdown(wait=True)
\* returns when the submitted worker has finished
ShutdownWait(q) == q.spc = "done"
TimedOut == [kind |-> "timeout", data |-> << >>]
\* future.result(timeout=10): the worker's result, or TimeoutError
FutureReady(q) == q.spc = "done" \/ q.waited >= DEADLINE
FutureResult(q) == IF q.spc = "done" THEN q.ret ELSE TimedOut
\* faulty variant: a synthesis that gave nothing is answered as an api_error
ChatResponseNothingAsApiError(q) ==
    LET v == FutureResult(q) IN
    IF v.kind \in {"raise", "timeout"}
    THEN Responded(q, "audio_error", Reply(q.text), None, 200)
    ELSE IF Truthy(v)
    THEN Responded(q, "success", Reply(q.text), B64(v), 200)
    ELSE ApiError(q)
\* the response built from the future
ChatResponse(q) ==
    LET v == FutureResult(q) IN
    IF v.kind \in {"raise", "timeout"}
    THEN Responded(q, "audio_error", Reply(q.text), None, 200)
    ELSE IF Truthy(v)
    THEN Responded(q, "success", Reply(q.text), B64(v), 200)
    ELSE Responded(q, "no_audio", Reply(q.text), None, 200)

ChatRespond(r) ==
    /\ req[r].kind = "chat"
    /\ req[r].hpc = "join"
    /\ ShutdownWait(req[r])
    /\ FutureReady(req[r])
    /\ req' = [req EXCEPT ![r] = ChatResponse(req[r])]
    /\ UNCHANGED <<cache, user_data, useOrder, everCached, env>>

\* ------------------------------------------------------- process start
\* loading the module: the key configuration and the client constructors do
\* not fail on a placeholder; chat.send_message with the system prompt is
\* called outside any try, so its exception ends the process
Startup(o) ==
    /\ phase = "boot"
    /\ phase' = IF o = "ok" THEN "serving" ELSE "crashed"
    /\ UNCHANGED <<cache, user_data, req, useOrder, everCached, credentials, temp_file>>

\* ------------------------------------------------------- transcription
\* request r uploads its own recording
Recording(r) == r
Transcript(a) == <<"words", a>>
NoAudioMessage == "No audio file provided"
NotConfiguredMessage ==
    "AssemblyAI API key is not configured. Please update api_key.json with your key."
BackendMessage == "AssemblyAI error: the exception's text"
\* jsonify(body), code
TransResponded(q, body, code) ==
    [Responded(q, IF "status" \in DOMAIN body THEN body.status ELSE "", << >>, None, code)
        EXCEPT !.body = body]

\* transcribe_with_assemblyai up to audio_file.save(temp_file_path)
TranscribeReceive(r, attached) ==
    /\ phase = "serving"
    /\ req[r].hpc = "idle"
    /\ IF attached
       THEN /\ req' = [req EXCEPT ![r] = [Idle EXCEPT !.kind = "transcribe", !.hpc = "saved",
                                                      !.upload = Recording(r)]]
            /\ temp_file' = Recording(r)
       ELSE /\ req' = [req EXCEPT ![r] =
                        TransResponded([Idle EXCEPT !.kind = "transcribe"],
                                       [error |-> NoAudioMessage], 400)]
            /\ temp_file' = temp_file
    /\ UNCHANGED <<cache, user_data, useOrder, everCached, phase, credentials>>

\* the handler's return for a request whose run went as q.tout
TransReturn(q) ==
    CASE q.tout = "nokey" ->
           TransResponded(q, [transcript |-> << >>, error |-> NotConfiguredMessage,
                              status |-> "error"], 400)
      [] q.tout = "ok" ->
           TransResponded(q, [transcript |-> Transcript(q.heard),
                              status |-> "success"], 200)
      [] q.tout = "notext" ->
           TransResponded(q, [transcript |-> << >>, status |-> "success"], 200)
      [] q.tout = "raise" ->
           TransResponded(q, [transcript |-> << >>, error |-> BackendMessage,
                              status |-> "error"], 500)
\* "if os.path.exists(temp_file_path):" a file that is there is removed next,
\* without one the handler returns
AfterExists(q) == IF temp_file # 0 THEN [q EXCEPT !.hpc = "removing"] ELSE TransReturn(q)

\* the key check and, with a key, transcriber.transcribe(temp_file_path): the
\* backend is given what the file holds now, and a missing file is an exception
TranscribeRun(r, o) ==
    /\ req[r].hpc = "saved"
    /\ req' = [req EXCEPT ![r] =
          IF ~ASSEMBLY_AI_API_KEY
          THEN AfterExists([req[r] EXCEPT !.tout = "nokey"])
          ELSE [req[r] EXCEPT !.hpc = "cleanup", !.heard = temp_file,
                              !.tout = IF temp_file = 0 THEN "raise" ELSE o]]
    /\ UNCHANGED <<cache, user_data, useOrder, everCached, env>>

\* after transcribe, or in the except clause: the check for the file
TranscribeReturn(r) ==
    /\ req[r].hpc = "cleanup"
    /\ req' = [req EXCEPT ![r] = AfterExists(req[r])]
    /\ UNCHANGED <<cache, user_data, useOrder, everCached, env>>

\* faulty variant: after a backend failure the file is left where it is
TranscribeRemoveKeepsOnError(r) ==
    /\ req[r].hpc = "removing"
    /\ temp_file' = IF req[r].tout = "raise" THEN temp_file ELSE 0
    /\ req' = [req EXCEPT ![r] =
          IF temp_file # 0 \/ req[r].tout = "raise" THEN TransReturn(req[r])
          ELSE [req[r] EXCEPT !.hpc = "cleanup", !.tout = "raise"]]
    /\ UNCHANGED <<cache, user_data, useOrder, everCached, phase, credentials>>
\* os.remove(temp_file_path), then the return.  When another request has
\* removed the file since the check, os.remove raises: inside the try this
\* leads to the except clause, inside the except clause it leaves the handler
TranscribeRemove(r) ==
    /\ req[r].hpc = "removing"
    /\ temp_file' = 0
    /\ req' = [req EXCEPT ![r] =
          IF temp_file # 0 THEN TransReturn(req[r])
          ELSE IF req[r].tout = "raise"
          THEN Responded(req[r], "fault", << >>, None, 0)
          ELSE [req[r] EXCEPT !.hpc = "cleanup", !.tout = "raise"]]
    /\ UNCHANGED <<cache, user_data, useOrder, everCached, phase, credentials>>

\* the response has gone to the client; the slot takes the next request
Finish(r) ==
    /\ req[r].hpc = "responded"
    /\ req' = [req EXCEPT ![r] = Idle]
    /\ UNCHANGED <<cache, user_data, useOrder, everCached, env>>

Next ==
    \/ \E r \in Reqs, body \in BodyKinds, n \in MsgLens : ChatReceive(r, body, n)
    \/ \E r \in Reqs, o \in {"ok", "raise"}, t \in ReqTexts : ChatSend(r, o, t)
    \/ \E r \in Reqs : GreetReceive(r)
    \/ \E r \in Reqs, t \in ReqTexts : AudioReceive(r, t)
    \/ \E r \in Reqs, o \in FreeOutcomes : SynthFree(r, o)
    \/ \E r \in Reqs, o \in PaidOutcomesWith(ELEVEN_LABS_API_KEY) : SynthPaid(r, o)
    \/ \E r \in Reqs : Tick(r)
    \/ \E r \in Reqs : ChatRespond(r)
    \/ \E r \in Reqs : Finish(r)
    \/ \E o \in StartOutcomesWith(GEMINI_API_KEY) : Startup(o)
    \/ \E r \in Reqs, attached \in BOOLEAN : TranscribeReceive(r, attached)
    \/ \E r \in Reqs, o \in TranscribeOutcomes : TranscribeRun(r, o)
    \/ \E r \in Reqs : TranscribeReturn(r)
    \/ \E r \in Reqs : TranscribeRemove(r)

Spec == Init /\ [][Next]_vars

\* ------------------------------------------------------------- claims
\* request slots at particular points
ChatDone(r) == req[r].kind = "chat" /\ req[r].hpc = "join" /\ req[r].spc = "done"
\* in this step request r enters cached_text_to_speech
EntersCached(r) == req[r].pout = "none" /\ req'[r].pout # "none"
\* in this step the chat handler of r returns the response built from the future
ChatResponds(r) == req[r].hpc = "join" /\ req'[r].hpc = "responded"
\* the caller q got the bytes v from the cached path
Delivered(q, v) ==
    CASE q.kind = "chat" -> q.spc = "done" /\ q.ret = (IF Len(v.data) > 0 THEN v ELSE None)
      [] q.kind = "greet" -> q.hpc = "responded"
                             /\ q.resp.audio = (IF Len(v.data) > 0 THEN B64(v) ELSE None)
      [] q.kind = "audio" -> q.hpc = "responded" /\ q.resp.audio = v
      [] OTHER -> FALSE

\* C1: for every text and every combination of provider outcomes, the chat
\* path's fallback synthesis generate_audio ends with non-empty bytes or with
\* None, and no exception leaves it.
C1_SynthesisBytesOrNone ==
    \A r \in Reqs : ChatDone(r) =>
        /\ req[r].ret.kind \in {"none", "bytes"}
        /\ req[r].ret = None \/ Len(req[r].ret.data) > 0
\* both providers failed and the synthesis ended with None
C1_Witness == \E r \in Reqs : ChatDone(r) /\ req[r].pout = "raise" /\ req[r].ret = None

\* C2: when the free provider gave no non-empty bytes and the paid provider
\* returned bytes B, the synthesis returns exactly B; when the paid provider
\* failed too it returns None; when the free provider returned non-empty bytes
\* F (the paid path was not entered) it returns exactly F.
C2_FallbackResult ==
    \A r \in Reqs : ChatDone(r) =>
        /\ req[r].pout = "ok" => req[r].ret = Bytes(PaidData(req[r].text))
        /\ req[r].pout = "raise" => req[r].ret = None
        /\ req[r].pout = "none" => req[r].ret = Bytes(FreeData(req[r].text))
\* the free provider failed and the paid provider's bytes were returned
C2_Witness ==
    \E r \in Reqs : ChatDone(r) /\ req[r].pout = "ok"
                    /\ req[r].ret = Bytes(PaidData(req[r].text))

\* C3: a chat handler that has submitted its synthesis is never still blocked
\* after more than the 10-second deadline: it waits at most the deadline and
\* then goes on to build its response.
C3_WaitsAtMostDeadline ==
    \A r \in Reqs : req[r].hpc = "join" => req[r].waited <= DEADLINE

\* C4: a chat request whose model call succeeded answers with the reply text
\* and exactly one of: success with audio when the synthesis gave non-empty
\* bytes within the deadline, no_audio without audio when it gave nothing
\* within the deadline, audio_error without audio when it raised or took
\* longer than the deadline.
C4_ThreeOutcomes ==
    [][\A r \in Reqs : ChatResponds(r) =>
        LET q == req[r]
            s == req'[r].resp IN
        /\ s.text = Reply(q.text)
        /\ \/ /\ q.waited <= DEADLINE /\ q.spc = "done" /\ Truthy(q.ret)
              /\ s.status = "success" /\ s.audio # None
           \/ /\ q.waited <= DEADLINE /\ q.spc = "done" /\ q.ret = None
              /\ s.status = "no_audio" /\ s.audio = None
           \/ /\ q.waited > DEADLINE \/ q.spc # "done" \/ q.ret.kind = "raise"
              /\ s.status = "audio_error" /\ s.audio = None]_vars

\* C5: the cache never holds more than CAPACITY entries; a paid call that
\* returns stores its text; and when a new key goes into a full cache exactly
\* one entry leaves it, so the size stays at CAPACITY.
C5_CacheBounded ==
    /\ Len(cache) <= CAPACITY
    /\ [][/\ Len(cache') <= CAPACITY
          /\ \A r \in Reqs : (req[r].spc = "call" /\ req'[r].pout \in {"ok", "empty"})
                                => req[r].text \in Keys(cache')
          /\ (Len(cache) = CAPACITY /\ Keys(cache') # Keys(cache)) =>
                /\ Len(cache') = CAPACITY
                /\ Cardinality(Keys(cache) \ Keys(cache')) = 1
                /\ Cardinality(Keys(cache') \ Keys(cache)) = 1]_vars
\* a fresh text went into the full cache
C5_Witness == Len(cache) = CAPACITY /\ \E t \in FreshTexts : t \in Keys(cache)

\* C6 as stated: once a text has been stored in the cache, no paid-provider
\* client call is started for it again.
C6_NoSecondCallEver ==
    [][\A r \in Reqs : (req[r].spc # "call" /\ req'[r].spc = "call")
                        => req'[r].text \notin everCached]_vars
\* C6 amended: while a text is in the cache, a call that reaches the paid
\* path starts no client call and gets the cached bytes.
C6_NoCallWhileCached ==
    [][\A r \in Reqs : (EntersCached(r) /\ req'[r].text \in Keys(cache)) =>
        /\ req'[r].pout = "hit"
        /\ req'[r].spc # "call"
        /\ Delivered(req'[r], cache[IndexOf(cache, req'[r].text)].val)]_vars
\* a chat synthesis fell back to the paid path and was served from the cache
C6_Witness ==
    \E r \in Reqs : ChatDone(r) /\ req[r].pout = "hit"
                    /\ req[r].ret = Bytes(PaidData(req[r].text))

\* C7: an entry leaves the cache only when a new key goes into the full
\* cache, and it is the entry whose last store or hit is the oldest; a lookup
\* of the key stored (or hit) last hits and gives exactly the bytes stored.
C7_LruEviction ==
    [][/\ \A k \in Keys(cache) \ Keys(cache') :
             Len(cache) = CAPACITY /\ k = useOrder[1].key
       /\ \A r \in Reqs :
             (/\ EntersCached(r)
              /\ Len(useOrder) > 0
              /\ req'[r].text = useOrder[Len(useOrder)].key) =>
                /\ req'[r].pout = "hit"
                /\ Delivered(req'[r], useOrder[Len(useOrder)].val)]_vars
\* the introduction was refreshed or stored again, so that the entries after
\* it were evicted in its place
C7_Witness ==
    /\ Len(cache) = CAPACITY
    /\ cache[1].key = IntroText + 2
    /\ IntroText \in Keys(cache)

\* C8: every cache entry holds bytes the paid provider gave for the entry's
\* own key, and a synthesis in which the free provider returned non-empty
\* bytes leaves the cache as it was.
PaidValues(c) ==
    \A i \in 1..Len(c) : c[i].val \in {Bytes(PaidData(c[i].key)), Bytes(<< >>)}
C8_OnlyPaidCached ==
    /\ PaidValues(cache)
    /\ [][/\ PaidValues(cache')
          /\ \A r \in Reqs :
                (req[r].spc = "free" /\ req'[r].spc # "free" /\ req'[r].pout = "none")
                    => cache' = cache]_vars
\* the free provider served a chat synthesis while the cache held entries
C8_Witness ==
    \E r \in Reqs : /\ ChatDone(r) /\ req[r].pout = "none"
                    /\ req[r].ret = Bytes(FreeData(req[r].text))
                    /\ req[r].text \in FreshTexts
                    /\ Len(cache) = CAPACITY

\* C9: the message given to the model is the message itself when it has at
\* most 500 characters, and otherwise its first 500 characters followed by
\* the marker "...", 503 characters in all.
C9_Truncation ==
    \A r \in Reqs : req[r].hpc = "send" =>
        LET m == req[r].msg
            f == req[r].fwd IN
        /\ Len(f) <= 503
        /\ Len(m) <= 500 => f = m
        /\ Len(m) > 500 =>
              /\ Len(f) = 503
              /\ \A i \in 1..500 : f[i] = m[i]
              /\ \A i \in 501..503 : f[i] = "."
\* the longest message is on its way to the model, truncated
C9_Witness ==
    \E r \in Reqs : /\ req[r].hpc = "send" /\ Len(req[r].msg) = MaxMsgLen
                    /\ Len(req[r].fwd) = 503

\* C10: when chat.send_message fails, the handler answers with the apology,
\* no audio and status api_error; no fault leaves the handler.
C10_ApiError ==
    [][\A r \in Reqs : (req[r].hpc = "send" /\ req'[r].hpc # "send") =>
        \/ req'[r].hpc = "join"
        \/ /\ req'[r].hpc = "responded"
           /\ req'[r].resp = [status |-> "api_error", text |-> ApologyText,
                              audio |-> None, code |-> 200]]_vars
\* a request whose model call failed has answered
C10_Witness ==
    \E r \in Reqs : /\ req[r].kind = "chat" /\ req[r].hpc = "responded"
                    /\ req[r].resp.status = "api_error" /\ Len(req[r].fwd) > 0

\* in this step the handler of r returns its response
Responds(r) == req[r].hpc # "responded" /\ req'[r].hpc = "responded"

\* C11: an on-demand audio request is never in a free-provider call; it
\* answers with the bytes of the cached paid path (the cached bytes on a hit,
\* the client's bytes after a miss) and status 200 when that path returns, and
\* with the JSON error and status 500 when it raises.
C11_AudioPaidOnly ==
    /\ [](\A r \in Reqs : req[r].kind = "audio" => req[r].spc # "free")
    /\ [][\A r \in Reqs : (Responds(r) /\ req'[r].kind = "audio") =>
            LET q == req'[r]
                ok(v) == q.resp = [status |-> "audio", text |-> << >>,
                                   audio |-> v, code |-> 200] IN
            \/ q.pout = "hit" /\ ok(cache[IndexOf(cache, q.text)].val)
            \/ q.pout = "ok" /\ ok(Bytes(PaidData(q.text)))
            \/ q.pout = "empty" /\ ok(Bytes(<< >>))
            \/ /\ q.pout = "raise"
               /\ q.resp = [status |-> "error", text |-> <<"Failed to generate audio">>,
                            audio |-> None, code |-> 500]]_vars
\* an on-demand request whose paid call raised has answered with status 500
C11_Witness ==
    \E r \in Reqs : /\ req[r].kind = "audio" /\ req[r].hpc = "responded"
                    /\ req[r].pout = "raise" /\ req[r].resp.code = 500

\* C12: the greeting always answers with a non-empty text, the introduction
\* or, with an incomplete profile, the fixed fallback text; its audio is the
\* free provider's non-empty bytes, else the cached paid path's non-empty
\* bytes, else null; no fault leaves it.
C12_GreetingAlwaysText ==
    [][\A r \in Reqs : (Responds(r) /\ req'[r].kind = "greet") =>
        LET q == req[r]
            p == req'[r].pout
            s == req'[r].resp IN
        /\ s.status = "page"
        /\ s.code = 200
        /\ Len(s.text) > 0
        /\ s.text = IF user_data THEN Intro ELSE FallbackIntro
        /\ CASE q.hpc = "idle" -> ~user_data /\ s.audio = None
             [] q.spc = "free" /\ p = "none" -> s.audio = B64(Bytes(FreeData(q.text)))
             [] q.spc = "free" /\ p = "hit" ->
                    LET v == cache[IndexOf(cache, q.text)].val IN
                    s.audio = IF Len(v.data) > 0 THEN B64(v) ELSE None
             [] q.spc = "call" ->
                    s.audio = IF p = "ok" THEN B64(Bytes(PaidData(q.text))) ELSE None
             [] OTHER -> FALSE]_vars
\* a greeting has answered with the introduction and no audio after both
\* providers failed
C12_Witness ==
    \E r \in Reqs : /\ req[r].kind = "greet" /\ req[r].hpc = "responded"
                    /\ req[r].pout = "raise"
                    /\ req[r].resp.text = Intro /\ req[r].resp.audio = None

\* C13: a transcription request without an audio field is answered with
\* status 400, an empty transcript and an error message, and nothing is
\* processed: the temporary file is not written and the backend hears nothing.
C13_NoAudioField ==
    [][\A r \in Reqs :
          (Responds(r) /\ req'[r].kind = "transcribe" /\ req[r].hpc = "idle") =>
            /\ req'[r].resp.code = 400
            /\ "error" \in DOMAIN req'[r].body
            /\ "transcript" \in DOMAIN req'[r].body
            /\ req'[r].body.transcript = << >>
            /\ temp_file' = temp_file
            /\ req'[r].heard = 0]_vars

\* C14: a transcription request with a file attached is answered with status
\* 500, status tag error and an empty transcript whenever the backend raises
\* or the speech-recognition key is not configured; status 400 is given to a
\* request without a file only.
C14_ServerErrorOnFailure ==
    [][\A r \in Reqs : (Responds(r) /\ req'[r].kind = "transcribe") =>
        /\ (req[r].upload # 0 /\ (~ASSEMBLY_AI_API_KEY \/ req[r].tout = "raise")) =>
              /\ req'[r].resp.code = 500
              /\ req'[r].body.status = "error"
              /\ req'[r].body.transcript = << >>
        /\ req'[r].resp.code = 400 => req[r].upload = 0]_vars

\* C15: for every combination of present and absent keys the process gets
\* through its start, the sending of the system prompt included; stated for
\* the conversational-model key: a process started without it never crashes
\* while loading.
C15_StartupServes == ~GEMINI_API_KEY => phase # "crashed"

\* C16: in a chat or greeting synthesis the free provider is called first;
\* the cached paid path is entered only in the step in which the free call of
\* the same synthesis ends without non-empty bytes; and when the free call
\* gives non-empty bytes the cache is left as it is and no paid call starts.
C16_FreeFirst ==
    [][\A r \in Reqs : req'[r].kind \in {"chat", "greet"} =>
         /\ (req[r].spc = "none" /\ req'[r].spc # "none") =>
                req'[r].spc = "free" /\ req'[r].pout = "none"
         /\ EntersCached(r) => req[r].spc = "free" /\ ~Truthy(req'[r].fret)
         /\ (req[r].spc = "free" /\ Truthy(req'[r].fret)) =>
                /\ cache' = cache
                /\ useOrder' = useOrder
                /\ req'[r].pout = "none"
                /\ req'[r].spc \notin {"free", "call"}]_vars
\* a greeting whose free call gave nothing is in its paid call
C16_Witness ==
    \E r \in Reqs : /\ req[r].kind = "greet" /\ req[r].spc = "call"
                    /\ req[r].fret = None

\* the bytes the paid client gave request q, whose call went as p
PaidBytes(q, p) == IF p = "ok" THEN Bytes(PaidData(q.text)) ELSE Bytes(<< >>)
\* in this step the paid client call of r returns or raises
CallEnds(r) == req[r].spc = "call" /\ req'[r].spc # "call"
\* a request makes one paid call at most, and a chat request whose free call
\* failed and whose paid call gave bytes answers success with those bytes
OneCallAndSuccess(r) ==
    /\ (req[r].spc # "call" /\ req'[r].spc = "call") => req[r].pout = "none"
    /\ (ChatResponds(r) /\ req[r].pout = "ok") =>
          /\ req'[r].resp.status = "success"
          /\ req'[r].resp.audio = B64(Bytes(PaidData(req[r].text)))

CachedReturns(r) ==
    /\ req[r].pout \in {"none", "miss"}
    /\ req'[r].pout \in {"hit", "ok", "empty"}

\* C18: with requests interleaved in every way, the cache never holds more
\* than CAPACITY entries nor a key twice; every caller of the cached path
\* gets bytes the paid provider produced for the caller's own text; and a
\* caller starts one paid call at most, also when two callers miss on the
\* same text.
C18_ConcurrentSafe ==
    /\ [](Len(cache) <= CAPACITY /\ Cardinality(Keys(cache)) = Len(cache))
    /\ [][\A r \in Reqs :
            /\ (req[r].spc # "call" /\ req'[r].spc = "call") => req[r].pout = "none"
            /\ CachedReturns(r) =>
                  \/ Delivered(req'[r], Bytes(PaidData(req'[r].text)))
                  \/ Delivered(req'[r], Bytes(<< >>))]_vars
\* two requests missed on the same text, each made its own paid call, and the
\* cache holds the text once
C18_Witness ==
    \E r1, r2 \in Reqs :
        /\ r1 # r2
        /\ req[r1].pout = "ok" /\ req[r2].pout = "ok"
        /\ req[r1].text = req[r2].text
        /\ KeySeq(cache) = <<req[r1].text>>

\* C19: a paid call that raises leaves the cache exactly as it was, entries
\* and order; and a call of the cached path for a text that is not in the
\* cache, as after such a failure, starts a paid call.
C19_FailureNotCached ==
    [][\A r \in Reqs :
         /\ (CallEnds(r) /\ req'[r].pout = "raise") =>
               cache' = cache /\ useOrder' = useOrder
         /\ (EntersCached(r) /\ req'[r].text \notin Keys(cache)) =>
               req'[r].pout = "miss" /\ req'[r].spc = "call"]_vars
\* the paid call of one request raised, the text is not cached, and another
\* request for the same text is in its own paid call
C19_Witness ==
    \E r1, r2 \in Reqs :
        /\ req[r1].pout = "raise" /\ req[r1].hpc = "responded"
        /\ req[r1].text \notin Keys(cache)
        /\ req[r2].text = req[r1].text /\ req[r2].spc = "call"

\* C20: a chat request that answers api_error has attempted no synthesis: it
\* comes straight from receiving the message or from the model call, it has
\* no reply text and no worker, it called neither provider, and the cache and
\* its order are as they were.
C20_ApiErrorNoSynthesis ==
    [][\A r \in Reqs :
         (Responds(r) /\ req'[r].kind = "chat" /\ req'[r].resp.status = "api_error") =>
            /\ req[r].hpc \in {"idle", "send"}
            /\ req[r].spc = "none" /\ req'[r].spc = "none"
            /\ req'[r].text = 0
            /\ req'[r].fret = None
            /\ req'[r].pout = "none"
            /\ cache' = cache
            /\ useOrder' = useOrder]_vars
\* a chat request without a message has answered api_error while another
\* request is in a synthesis
C20_Witness ==
    \E r1, r2 \in Reqs :
        /\ req[r1].kind = "chat" /\ req[r1].hpc = "responded"
        /\ req[r1].resp.status = "api_error" /\ Len(req[r1].fwd) = 0
        /\ req[r2].spc \in {"free", "call"}

\* request q is between saving its upload and returning
InTranscription(q) == q.kind = "transcribe" /\ q.hpc \in {"saved", "cleanup", "removing"}

\* C21: when a transcription request that saved its upload returns, with no
\* other transcription request in flight, the temporary file is gone, on each
\* of the return paths: key not configured, transcription done, backend failed.
C21_TempFileRemoved ==
    [][\A r \in Reqs :
         (/\ Responds(r)
          /\ req'[r].kind = "transcribe"
          /\ req'[r].upload # 0
          /\ \A r2 \in Reqs \ {r} : ~InTranscription(req[r2])) =>
            /\ temp_file' = 0
            /\ req'[r].tout \in {"nokey", "ok", "notext", "raise"}]_vars
\* a request whose own recording the backend failed on has answered 500, and
\* the file is gone
C21_Witness ==
    \E r \in Reqs :
        /\ req[r].kind = "transcribe" /\ req[r].hpc = "responded"
        /\ req[r].heard = req[r].upload /\ req[r].upload # 0
        /\ req[r].tout = "raise" /\ req[r].resp.code = 500
        /\ temp_file = 0
        /\ \A r2 \in Reqs \ {r} : req[r2].kind # "transcribe"

\* C22: two transcription requests do not interfere in any interleaving:
\* the recording a request's transcribe call gives the backend is the one the
\* request uploaded, and no request removes the temporary file while another
\* request is between saving it and transcribing it.
C22_NoInterference ==
    /\ [](\A r \in Reqs :
            (req[r].kind = "transcribe" /\ req[r].tout \in TranscribeOutcomes)
                => req[r].heard = req[r].upload)
    /\ [][\A r \in Reqs :
            (req'[r] # req[r] /\ temp_file # 0 /\ temp_file' = 0) =>
                \A r2 \in Reqs \ {r} : req[r2].hpc # "saved"]_vars

====
